---- MODULE Spec2Model ----
(***************************************************************************)
(* Model of the jsonPrettyPrint Lightning web component (the parent        *)
(* component holding the expansion set and building the display tree) and  *)
(* of its jsonTreeNode child (one rendered row, source of toggle events).  *)
(*                                                                         *)
(* JavaScript strings are TLA+ strings, template literals are \o.          *)
(* A parsed JSON value is a record tagged by t:                            *)
(*   [t |-> "null"], [t |-> "number", v |-> 1], [t |-> "string", v |-> s], *)
(*   [t |-> "boolean", v |-> TRUE], [t |-> "array", items |-> <<..>>],     *)
(*   [t |-> "object", members |-> << [k |-> key, v |-> value], .. >>]      *)
(* with the members of an object in the order of the document text.        *)
(***************************************************************************)
EXTENDS Integers, Sequences, FiniteSets, TLC

VARIABLES jsonTree, error, expandedNodes, fieldData, allExpanded,
          objectInfo, objectApiName, copies,
          lastEvent, toggleRun, snapshot, prevError

vars == <<jsonTree, error, expandedNodes, fieldData, allExpanded,
          objectInfo, objectApiName, copies,
          lastEvent, toggleRun, snapshot, prevError>>

(***************************************************************************)
(* Bounds                                                                  *)
(***************************************************************************)
\* largest array index / integer-like object key of the documents
MaxIndex == 2

\* number of calls of handleCopyToClipboard
MaxCopies == 2

\* number of entries of Texts the record source delivers
NumTexts == 11

(***************************************************************************)
(* JSON values of the documents                                            *)
(***************************************************************************)
JNull == [t |-> "null"]

JNum(n) == [t |-> "number", v |-> n]

JStr(s) == [t |-> "string", v |-> s]

JBool(b) == [t |-> "boolean", v |-> b]

JArr(items) == [t |-> "array", items |-> items]

JObj(members) == [t |-> "object", members |-> members]

M(k, v) == [k |-> k, v |-> v]

(***************************************************************************)
(* Field texts the record source can deliver.  raw is the text, blank is   *)
(* raw.trim() === '', ok tells whether JSON.parse(raw) returns, json is    *)
(* the value it returns and msg the message of the SyntaxError it throws.  *)
(***************************************************************************)
Text(raw, blank, ok, json, msg) ==
    [raw |-> raw, blank |-> blank, ok |-> ok, json |-> json, msg |-> msg]

Doc(raw, json) == Text(raw, FALSE, TRUE, json, "")

Texts ==
    << Text("", TRUE, FALSE, JNull, "Unexpected end of JSON input"),
       Text(" ", TRUE, FALSE, JNull, "Unexpected end of JSON input"),
       Doc("{}", JObj(<<>>)),
       Text("{invalid", FALSE, FALSE, JNull, "Unexpected token i in JSON at position 1"),
       Doc("{\"a\":1,\"b\":{\"c\":2}}",
           JObj(<< M("a", JNum(1)), M("b", JObj(<< M("c", JNum(2)) >>)) >>)),
       Doc("{\"b\":[],\"a\":[1,2]}",
           JObj(<< M("b", JArr(<<>>)), M("a", JArr(<< JNum(1), JNum(2) >>)) >>)),
       Doc("[{\"a\":1,\"b\":2},[],{}]",
           JArr(<< JObj(<< M("a", JNum(1)), M("b", JNum(2)) >>),
                   JArr(<<>>), JObj(<<>>) >>)),
       Doc("{\"a\":{\"b.c\":[1]},\"a.b\":{\"c\":[2]}}",
           JObj(<< M("a", JObj(<< M("b.c", JArr(<< JNum(1) >>)) >>)),
                   M("a.b", JObj(<< M("c", JArr(<< JNum(2) >>)) >>)) >>)),
       Doc("{\"b\":\"x\",\"1\":null,\"0\":{\"\":true}}",
           JObj(<< M("b", JStr("x")), M("1", JNull),
                   M("0", JObj(<< M("", JBool(TRUE)) >>)) >>)),
       Doc("null", JNull),
       Doc("7", JNum(7)),
       Doc("[[1,[2]]]",
           JArr(<< JArr(<< JNum(1), JArr(<< JNum(2) >>) >>) >>)) >>

\* fieldData is null (NoText) or the index in Texts of a non-empty text
NoText == 0

TextIds == 1..NumTexts

\* the empty string, the one text that is falsy
EmptyString == 1

(***************************************************************************)
(* JavaScript values used as keys and paths: an array index is a number,   *)
(* an object key a string.  s is the value converted to a string.          *)
(***************************************************************************)
KeyNum(n) == [isNum |-> TRUE, n |-> n, s |-> ToString(n)]

KeyStr(s) == [isNum |-> FALSE, n |-> 0, s |-> s]

\* truthiness of a key or path: 0 and '' are falsy
Truthy(p) == IF p.isNum THEN p.n # 0 ELSE p.s # ""

(***************************************************************************)
(* Object.entries / Object.keys of a parsed object: integer-like keys in   *)
(* ascending numeric order first, then the other keys in the order of      *)
(* their first appearance; a repeated key keeps its last value.            *)
(***************************************************************************)
IsIndexKey(k) == \E n \in 0..MaxIndex : k = ToString(n)

RECURSIVE SortedIndexKeys(_)
SortedIndexKeys(S) ==
    IF S = {} THEN <<>>
    ELSE LET m == CHOOSE x \in S : \A y \in S : x <= y
         IN  <<ToString(m)>> \o SortedIndexKeys(S \ {m})

RECURSIVE FirstAppearance(_, _)
FirstAppearance(ms, i) ==
    IF i > Len(ms) THEN <<>>
    ELSE IF ~IsIndexKey(ms[i].k) /\ \A j \in 1..(i - 1) : ms[j].k # ms[i].k
         THEN <<ms[i].k>> \o FirstAppearance(ms, i + 1)
         ELSE FirstAppearance(ms, i + 1)

\* the keys of the members of an object in the order of their first
\* appearance in the document text
RECURSIVE TextOrderKeys(_, _)
TextOrderKeys(ms, i) ==
    IF i > Len(ms) THEN <<>>
    ELSE IF \A j \in 1..(i - 1) : ms[j].k # ms[i].k
         THEN <<ms[i].k>> \o TextOrderKeys(ms, i + 1)
         ELSE TextOrderKeys(ms, i + 1)

\* mutant: every key is kept in the order of the document text
OwnKeys_textOrder(ms) == TextOrderKeys(ms, 1)

OwnKeys(ms) ==
    SortedIndexKeys({n \in 0..MaxIndex : \E i \in 1..Len(ms) : ms[i].k = ToString(n)})
        \o FirstAppearance(ms, 1)

PropertyValue(ms, k) ==
    LET last == CHOOSE i \in 1..Len(ms) :
                    /\ ms[i].k = k
                    /\ \A j \in (i + 1)..Len(ms) : ms[j].k # k
    IN  ms[last].v

RECURSIVE ObjectEntriesFrom(_, _, _)
ObjectEntriesFrom(ms, keys, i) ==
    IF i > Len(keys) THEN <<>>
    ELSE <<[key |-> KeyStr(keys[i]), value |-> PropertyValue(ms, keys[i])]>>
             \o ObjectEntriesFrom(ms, keys, i + 1)

ObjectEntries(obj) == ObjectEntriesFrom(obj.members, OwnKeys(obj.members), 1)

\* obj.map((item, index) => [index, item])
RECURSIVE ArrayEntriesFrom(_, _)
ArrayEntriesFrom(items, i) ==
    IF i > Len(items) THEN <<>>
    ELSE <<[key |-> KeyNum(i - 1), value |-> items[i]]>> \o ArrayEntriesFrom(items, i + 1)

ArrayEntries(obj) == ArrayEntriesFrom(obj.items, 1)

IsArray(value) == value.t = "array"

IsObjectType(value) == value.t \in {"array", "object"}

\* obj.length of an array, Object.keys(value).length of any container
Length(value) == Len(value.items)

ObjectKeysLength(value) ==
    IF IsArray(value) THEN Len(value.items) ELSE Len(OwnKeys(value.members))


(***************************************************************************)
(* jsonPrettyPrint: value presentation                                     *)
(***************************************************************************)
\* mutant: the emptiness test is dropped
hasChildren_anyContainer(value) ==
    value.t # "null" /\ IsObjectType(value)

\* mutant: only the length of an array is tested
hasChildren_emptyObject(value) ==
    /\ value.t # "null"
    /\ IsObjectType(value)
    /\ IF IsArray(value) THEN Length(value) > 0 ELSE TRUE

hasChildren(value) ==
    /\ value.t # "null"
    /\ IsObjectType(value)
    /\ IF IsArray(value) THEN Length(value) > 0 ELSE ObjectKeysLength(value) > 0

getValueType(value) ==
    IF value.t = "null" THEN "null"
    ELSE IF IsArray(value) THEN "array"
    ELSE value.t

\* JSON.stringify(value) without indentation
RECURSIVE JSONstringify(_)
RECURSIVE StringifyItems(_, _)
RECURSIVE StringifyProperties(_, _)
StringifyItems(items, i) ==
    IF i > Len(items) THEN ""
    ELSE (IF i > 1 THEN "," ELSE "") \o JSONstringify(items[i])
             \o StringifyItems(items, i + 1)

StringifyProperties(entries, i) ==
    IF i > Len(entries) THEN ""
    ELSE (IF i > 1 THEN "," ELSE "") \o "\"" \o entries[i].key.s \o "\":"
             \o JSONstringify(entries[i].value) \o StringifyProperties(entries, i + 1)

JSONstringify(value) ==
    CASE value.t = "null"    -> "null"
      [] value.t = "number"  -> ToString(value.v)
      [] value.t = "boolean" -> (IF value.v THEN "true" ELSE "false")
      [] value.t = "string"  -> "\"" \o value.v \o "\""
      [] value.t = "array"   -> "[" \o StringifyItems(value.items, 1) \o "]"
      [] value.t = "object"  -> "{" \o StringifyProperties(ObjectEntries(value), 1) \o "}"

formatValue(value) ==
    IF value.t = "string" THEN "\"" \o value.v \o "\""
    ELSE IF value.t = "boolean" THEN (IF value.v THEN "true" ELSE "false")
    ELSE IF value.t = "number" THEN ToString(value.v)
    ELSE IF value.t = "null" THEN "null"
    ELSE JSONstringify(value)

generateKey(path, level) == path.s \o "_" \o ToString(level)

(***************************************************************************)
(* jsonPrettyPrint.buildJsonTree, reading the expansion set given as       *)
(* expanded.  A node of the tree is a record; a root leaf has no isArray   *)
(* property, which reads as undefined and is FALSE here.                   *)
(***************************************************************************)
fullPathOf(parentKey, key) ==
    IF Truthy(parentKey) THEN KeyStr(parentKey.s \o "." \o key.s) ELSE key

valueText(obj, value) ==
    IF hasChildren(value)
    THEN IF IsArray(obj)
         THEN "[" \o ToString(Length(obj)) \o " items]"
         ELSE "{" \o ToString(ObjectKeysLength(value)) \o " properties}"
    ELSE formatValue(value)

isExpandedOf(nodeKey, expanded) == nodeKey \in expanded

entriesOf(obj) == IF IsArray(obj) THEN ArrayEntries(obj) ELSE ObjectEntries(obj)

RECURSIVE buildJsonTree(_, _, _, _)
RECURSIVE buildEntries(_, _, _, _, _, _)
\* mutant: the children are built whether or not the node is expanded
childrenOf_eager(value, fullPath, level, nodeKey, expanded) ==
    IF hasChildren(value)
    THEN buildJsonTree(value, fullPath, level + 1, expanded)
    ELSE <<>>

childrenOf(value, fullPath, level, nodeKey, expanded) ==
    IF hasChildren(value) /\ isExpandedOf(nodeKey, expanded)
    THEN buildJsonTree(value, fullPath, level + 1, expanded)
    ELSE <<>>

\* the forEach loop over entries, from entry i on
buildEntries(obj, entries, i, parentKey, level, expanded) ==
    IF i > Len(entries) THEN <<>>
    ELSE LET key      == entries[i].key
             value    == entries[i].value
             fullPath == fullPathOf(parentKey, key)
             nodeKey  == generateKey(fullPath, level)
             node     == [key         |-> nodeKey,
                          displayKey  |-> key.s,
                          value       |-> valueText(obj, value),
                          type        |-> getValueType(value),
                          level       |-> level,
                          hasChildren |-> hasChildren(value),
                          isExpanded  |-> isExpandedOf(nodeKey, expanded),
                          isArray     |-> IsArray(value),
                          children    |-> childrenOf(value, fullPath, level, nodeKey, expanded)]
         IN  <<node>> \o buildEntries(obj, entries, i + 1, parentKey, level, expanded)

buildJsonTree(obj, parentKey, level, expanded) ==
    IF obj.t = "null"
    THEN << [key |-> generateKey(parentKey, level), displayKey |-> parentKey.s,
             value |-> "null", type |-> "null", level |-> level,
             hasChildren |-> FALSE, isExpanded |-> FALSE, isArray |-> FALSE,
             children |-> <<>>] >>
    ELSE IF ~IsObjectType(obj)
    THEN << [key |-> generateKey(parentKey, level), displayKey |-> parentKey.s,
             value |-> formatValue(obj), type |-> obj.t, level |-> level,
             hasChildren |-> FALSE, isExpanded |-> FALSE, isArray |-> FALSE,
             children |-> <<>>] >>
    ELSE buildEntries(obj, entriesOf(obj), 1, parentKey, level, expanded)

(***************************************************************************)
(* jsonPrettyPrint.processPayload: the tree and the error it leaves, from  *)
(* the payload (NoText or an index of Texts), the expansion set and the    *)
(* error before the call.  NoError is the null of this.error.              *)
(***************************************************************************)
NoError == "<null>"

IsEmptyPayload(payload) ==
    \/ payload = NoText
    \/ Texts[payload].raw = ""
    \/ Texts[payload].blank
    \/ Texts[payload].raw = "{}"

\* mutant: an empty payload also clears the error
processPayload_clearsError(payload, expanded, err) ==
    IF IsEmptyPayload(payload)
    THEN [jsonTree |-> <<>>, error |-> NoError]
    ELSE IF Texts[payload].ok
    THEN [jsonTree |-> buildJsonTree(Texts[payload].json, KeyStr(""), 0, expanded),
          error |-> err]
    ELSE [jsonTree |-> <<>>, error |-> "Invalid JSON: " \o Texts[payload].msg]

processPayload(payload, expanded, err) ==
    IF IsEmptyPayload(payload)
    THEN [jsonTree |-> <<>>, error |-> err]
    ELSE IF Texts[payload].ok
    THEN [jsonTree |-> buildJsonTree(Texts[payload].json, KeyStr(""), 0, expanded),
          error |-> err]
    ELSE [jsonTree |-> <<>>, error |-> "Invalid JSON: " \o Texts[payload].msg]

\* get hasPayload, from the tree and the error given
hasPayload(tree, err) == Len(tree) > 0 /\ err = NoError

(***************************************************************************)
(* jsonPrettyPrint.addAllNodesToExpanded: the ids it adds to the set       *)
(***************************************************************************)
RECURSIVE addAllNodesToExpanded(_, _, _)
RECURSIVE addAllEntries(_, _, _, _)
\* mutant: the walk does not descend into the containers it adds
addAllEntries_noDescent(entries, i, parentKey, level) ==
    IF i > Len(entries) THEN {}
    ELSE LET nodeKey == generateKey(fullPathOf(parentKey, entries[i].key), level)
         IN  (IF hasChildren(entries[i].value) THEN {nodeKey} ELSE {})
             \cup addAllEntries(entries, i + 1, parentKey, level)

addAllEntries(entries, i, parentKey, level) ==
    IF i > Len(entries) THEN {}
    ELSE LET key      == entries[i].key
             value    == entries[i].value
             fullPath == fullPathOf(parentKey, key)
             nodeKey  == generateKey(fullPath, level)
         IN  (IF hasChildren(value)
              THEN {nodeKey} \cup addAllNodesToExpanded(value, fullPath, level + 1)
              ELSE {})
             \cup addAllEntries(entries, i + 1, parentKey, level)

addAllNodesToExpanded(obj, parentKey, level) ==
    IF obj.t = "null" \/ ~IsObjectType(obj) THEN {}
    ELSE addAllEntries(entriesOf(obj), 1, parentKey, level)

\* expandAllNodes: the expansion set after the call
expandAllNodes(payload, expanded) ==
    IF payload = NoText \/ Texts[payload].raw = "" THEN expanded
    ELSE IF Texts[payload].ok
    THEN expanded \cup addAllNodesToExpanded(Texts[payload].json, KeyStr(""), 0)
    ELSE expanded

(***************************************************************************)
(* jsonTreeNode: the rows rendered from a tree and the toggle events they  *)
(* can dispatch                                                            *)
(***************************************************************************)
showChildren(node) ==
    node.hasChildren /\ node.isExpanded /\ Len(node.children) > 0

RECURSIVE RenderedNodes(_)
RenderedNodes(tree) ==
    UNION { {tree[i]} \cup (IF showChildren(tree[i])
                            THEN RenderedNodes(tree[i].children) ELSE {})
            : i \in 1..Len(tree) }

\* jsonTreeNode.handleToggle dispatches only for a node with children
ToggleKeys(tree) == {n.key : n \in {m \in RenderedNodes(tree) : m.hasChildren}}


(***************************************************************************)
(* State machine.  lastEvent, toggleRun, snapshot and prevError are        *)
(* history variables: the last handler that ran, the number (up to 2) of   *)
(* consecutive toggles of the same node that end the run, the expansion    *)
(* set and tree before the first of them, and the error before the last    *)
(* handler ran.  copies holds the calls of handleCopyToClipboard.          *)
(***************************************************************************)
fieldApiName == "Payload__c"

NoSnapshot == [expandedNodes |-> {}, jsonTree |-> <<>>]

Event(op, id) == [op |-> op, id |-> id]

Init ==
    /\ jsonTree = <<>>
    /\ error = NoError
    /\ expandedNodes = {}
    /\ fieldData = NoText
    /\ allExpanded = FALSE
    /\ objectInfo = FALSE
    /\ objectApiName = FALSE
    /\ lastEvent = Event("init", "")
    /\ toggleRun = 0
    /\ snapshot = NoSnapshot
    /\ prevError = NoError
    /\ copies = <<>>

NoRun == toggleRun' = 0 /\ snapshot' = NoSnapshot

\* value || null
OrNull(v) == IF v = NoText \/ Texts[v].raw = "" THEN NoText ELSE v

\* wiredRecord({data}): fieldsValue is data.fields[fieldApiName]?.value,
\* available is data.recordTypeInfo?.available, rootValue is
\* data[fieldApiName]; data.apiName is set, as in every record of the wire
extractFieldData(fieldsValue, available, rootValue) ==
    IF OrNull(fieldsValue) = NoText /\ available
    THEN OrNull(rootValue)
    ELSE OrNull(fieldsValue)

\* mutant: the arrival empties the expansion set
wiredRecordData_resetsSet(fieldsValue, available, rootValue) ==
    LET data == extractFieldData(fieldsValue, available, rootValue)
        res  == processPayload(data, {}, NoError)
    IN  /\ fieldData' = data
        /\ objectApiName' = TRUE
        /\ expandedNodes' = {}
        /\ jsonTree' = res.jsonTree
        /\ error' = res.error
        /\ lastEvent' = Event("data", "")
        /\ prevError' = error
        /\ UNCHANGED copies
        /\ NoRun
        /\ UNCHANGED <<allExpanded, objectInfo>>

\* mutant: the arrival does not reset the error before processing
wiredRecordData_keepError(fieldsValue, available, rootValue) ==
    LET data == extractFieldData(fieldsValue, available, rootValue)
        res  == processPayload(data, expandedNodes, error)
    IN  /\ fieldData' = data
        /\ objectApiName' = TRUE
        /\ jsonTree' = res.jsonTree
        /\ error' = res.error
        /\ lastEvent' = Event("data", "")
        /\ prevError' = error
        /\ UNCHANGED copies
        /\ NoRun
        /\ UNCHANGED <<expandedNodes, allExpanded, objectInfo>>

\* wiredRecord({data}): error reset, field extraction, processCurrentSelection
wiredRecordData(fieldsValue, available, rootValue) ==
    LET data == extractFieldData(fieldsValue, available, rootValue)
        res  == processPayload(data, expandedNodes, NoError)
    IN  /\ fieldData' = data
        /\ objectApiName' = TRUE
        /\ jsonTree' = res.jsonTree
        /\ error' = res.error
        /\ lastEvent' = Event("data", "")
        /\ prevError' = error
        /\ UNCHANGED copies
        /\ NoRun
        /\ UNCHANGED <<expandedNodes, allExpanded, objectInfo>>

\* mutant: the fetch error leaves the tree as it was
wiredRecordError_keepTree(message) ==
    /\ error' = "Failed to load field '" \o fieldApiName \o "': " \o message
    /\ fieldData' = NoText
    /\ lastEvent' = Event("fetchError", "")
    /\ prevError' = error
    /\ UNCHANGED copies
    /\ NoRun
    /\ UNCHANGED <<jsonTree, expandedNodes, allExpanded, objectInfo, objectApiName>>

\* wiredRecord({error})
wiredRecordError(message) ==
    /\ error' = "Failed to load field '" \o fieldApiName \o "': " \o message
    /\ jsonTree' = <<>>
    /\ fieldData' = NoText
    /\ lastEvent' = Event("fetchError", "")
    /\ prevError' = error
    /\ UNCHANGED copies
    /\ NoRun
    /\ UNCHANGED <<expandedNodes, allExpanded, objectInfo, objectApiName>>

\* wiredObjectInfo({data}); the wire is provisioned once objectApiName is set
wiredObjectInfoData ==
    LET res == processPayload(fieldData, expandedNodes, error)
    IN  /\ objectApiName
        /\ objectInfo' = TRUE
        /\ jsonTree' = res.jsonTree
        /\ error' = res.error
        /\ lastEvent' = Event("objectInfo", "")
        /\ prevError' = error
        /\ UNCHANGED copies
        /\ NoRun
        /\ UNCHANGED <<expandedNodes, fieldData, allExpanded, objectApiName>>

\* wiredObjectInfo({error})
wiredObjectInfoError ==
    /\ objectApiName
    /\ objectInfo' = FALSE
    /\ lastEvent' = Event("objectInfoError", "")
    /\ prevError' = error
    /\ UNCHANGED copies
    /\ NoRun
    /\ UNCHANGED <<jsonTree, error, expandedNodes, fieldData, allExpanded, objectApiName>>

\* mutant: a toggle only ever adds
toggled_addOnly(nodeKey, expanded) == expanded \cup {nodeKey}

toggled(nodeKey, expanded) ==
    IF nodeKey \in expanded THEN expanded \ {nodeKey} ELSE expanded \cup {nodeKey}

\* mutant: the else branch assigns true
updateAllExpandedState_nonEmpty(expanded) ==
    IF Cardinality(expanded) = 0 THEN FALSE ELSE TRUE

\* updateAllExpandedState: both branches assign false
updateAllExpandedState(expanded) == IF Cardinality(expanded) = 0 THEN FALSE ELSE FALSE

\* mutant: the toggle does not rebuild the tree
handleToggleExpansion_noRebuild(nodeKey) ==
    LET set == toggled(nodeKey, expandedNodes)
        second == lastEvent = Event("toggle", nodeKey) /\ toggleRun = 1
    IN  /\ nodeKey \in ToggleKeys(jsonTree)
        /\ expandedNodes' = set
        /\ allExpanded' = updateAllExpandedState(set)
        /\ lastEvent' = Event("toggle", nodeKey)
        /\ prevError' = error
        /\ UNCHANGED copies
        /\ toggleRun' = (IF second THEN 2 ELSE 1)
        /\ snapshot' = (IF second THEN snapshot
                        ELSE [expandedNodes |-> expandedNodes, jsonTree |-> jsonTree])
        /\ UNCHANGED <<jsonTree, error, fieldData, objectInfo, objectApiName>>

\* handleToggleExpansion(event), event.detail.nodeKey = nodeKey, dispatched
\* by a rendered jsonTreeNode
handleToggleExpansion(nodeKey) ==
    LET set == toggled(nodeKey, expandedNodes)
        res == processPayload(fieldData, set, error)
        second == lastEvent = Event("toggle", nodeKey) /\ toggleRun = 1
    IN  /\ nodeKey \in ToggleKeys(jsonTree)
        /\ expandedNodes' = set
        /\ allExpanded' = updateAllExpandedState(set)
        /\ jsonTree' = res.jsonTree
        /\ error' = res.error
        /\ lastEvent' = Event("toggle", nodeKey)
        /\ prevError' = error
        /\ UNCHANGED copies
        /\ toggleRun' = (IF second THEN 2 ELSE 1)
        /\ snapshot' = (IF second THEN snapshot
                        ELSE [expandedNodes |-> expandedNodes, jsonTree |-> jsonTree])
        /\ UNCHANGED <<fieldData, objectInfo, objectApiName>>

\* mutant: the collapse-all branch does not clear the set
collapseAll_keepSet ==
    LET res == processPayload(fieldData, expandedNodes, error)
    IN  /\ allExpanded
        /\ allExpanded' = FALSE
        /\ jsonTree' = res.jsonTree
        /\ error' = res.error
        /\ lastEvent' = Event("collapseAll", "")
        /\ prevError' = error
        /\ UNCHANGED copies
        /\ NoRun
        /\ UNCHANGED <<expandedNodes, fieldData, objectInfo, objectApiName>>

\* handleExpandCollapseAll, branch this.allExpanded
collapseAll ==
    LET res == processPayload(fieldData, {}, error)
    IN  /\ allExpanded
        /\ expandedNodes' = {}
        /\ allExpanded' = FALSE
        /\ jsonTree' = res.jsonTree
        /\ error' = res.error
        /\ lastEvent' = Event("collapseAll", "")
        /\ prevError' = error
        /\ UNCHANGED copies
        /\ NoRun
        /\ UNCHANGED <<fieldData, objectInfo, objectApiName>>

\* handleExpandCollapseAll, else branch
expandAll ==
    LET set == expandAllNodes(fieldData, expandedNodes)
        res == processPayload(fieldData, set, error)
    IN  /\ ~allExpanded
        /\ expandedNodes' = set
        /\ allExpanded' = TRUE
        /\ jsonTree' = res.jsonTree
        /\ error' = res.error
        /\ lastEvent' = Event("expandAll", "")
        /\ prevError' = error
        /\ UNCHANGED copies
        /\ NoRun
        /\ UNCHANGED <<fieldData, objectInfo, objectApiName>>

handleExpandCollapseAll == collapseAll \/ expandAll

\* data.recordTypeInfo is read only when the field value is empty, and
\* data[fieldApiName] only when recordTypeInfo.available is set
AvailableInputs(fieldsValue) ==
    IF OrNull(fieldsValue) = NoText THEN BOOLEAN ELSE {FALSE}

RootInputs(fieldsValue, available) ==
    IF OrNull(fieldsValue) = NoText /\ available THEN {NoText, 1, 5} ELSE {NoText}

FetchMessages == {"The requested resource does not exist"}

Next ==
    \/ \E fieldsValue \in {NoText} \cup TextIds :
          \E available \in AvailableInputs(fieldsValue) :
             \E rootValue \in RootInputs(fieldsValue, available) :
                wiredRecordData(fieldsValue, available, rootValue)
    \/ \E message \in FetchMessages : wiredRecordError(message)
    \/ wiredObjectInfoData
    \/ wiredObjectInfoError
    \/ \E nodeKey \in ToggleKeys(jsonTree) : handleToggleExpansion(nodeKey)
    \/ collapseAll
    \/ expandAll

Spec == Init /\ [][Next]_vars

(***************************************************************************)
(* jsonPrettyPrint.handleCopyToClipboard.  A call is a record of copies:   *)
(* pc is "awaiting" while navigator.clipboard.writeText is pending and     *)
(* "done" after the handler returned, jsonData is the field text read at   *)
(* the start, pretty tells whether textToCopy is the re-serialized         *)
(* document (else the raw text), attempts lists the copy mechanisms called *)
(* so far with their outcome once known, and toasts the variants of the    *)
(* notifications shown by the call.                                        *)
(***************************************************************************)
treeVars == <<jsonTree, error, expandedNodes, fieldData, allExpanded,
              objectInfo, objectApiName, lastEvent, toggleRun, snapshot, prevError>>

Attempt(mechanism, ok) == [mechanism |-> mechanism, ok |-> ok]

\* mutant: the result of execCommand is ignored
copyToClipboardLegacyThrows_never(successful) == FALSE

\* copyToClipboardLegacy throws iff document.execCommand('copy') returns false
copyToClipboardLegacyThrows(successful) == ~successful

\* the legacy fallback at the end of the handler: its attempt and its toast
legacyCopy(successful) ==
    [attempt |-> Attempt("legacy", successful),
     toast   |-> IF copyToClipboardLegacyThrows(successful) THEN "error" ELSE "success"]

\* textToCopy is JSON.stringify(JSON.parse(jsonData), null, 2) if the parse
\* returns and jsonData otherwise
textIsPretty(jsonData) == Texts[jsonData].ok

\* the handler up to its return or its await; clipboardAvailable is
\* navigator.clipboard && window.isSecureContext, successful the result of
\* document.execCommand('copy')
handleCopyToClipboard(clipboardAvailable, successful) ==
    /\ Len(copies) < MaxCopies
    /\ copies' = Append(copies,
          IF IsEmptyPayload(fieldData)
          THEN [pc |-> "done", jsonData |-> fieldData, pretty |-> FALSE,
                attempts |-> <<>>, toasts |-> <<"warning">>]
          ELSE IF clipboardAvailable
          THEN [pc |-> "awaiting", jsonData |-> fieldData,
                pretty |-> textIsPretty(fieldData),
                attempts |-> <<>>, toasts |-> <<>>]
          ELSE [pc |-> "done", jsonData |-> fieldData,
                pretty |-> textIsPretty(fieldData),
                attempts |-> <<legacyCopy(successful).attempt>>,
                toasts |-> <<legacyCopy(successful).toast>>])
    /\ UNCHANGED treeVars

\* navigator.clipboard.writeText resolves for call i
writeTextResolved(i) ==
    /\ copies[i].pc = "awaiting"
    /\ copies' = [copies EXCEPT ![i] =
          [@ EXCEPT !.pc = "done",
                    !.attempts = Append(@, Attempt("primary", TRUE)),
                    !.toasts = Append(@, "success")]]
    /\ UNCHANGED treeVars

\* navigator.clipboard.writeText rejects for call i
writeTextRejected(i, successful) ==
    /\ copies[i].pc = "awaiting"
    /\ copies' = [copies EXCEPT ![i] =
          [@ EXCEPT !.pc = "done",
                    !.attempts = @ \o <<Attempt("primary", FALSE),
                                        legacyCopy(successful).attempt>>,
                    !.toasts = Append(@, legacyCopy(successful).toast)]]
    /\ UNCHANGED treeVars

\* field values delivered while copying: absent, empty, blank, '{}',
\* unparseable and a document
CopyInputs == {NoText, 1, 2, 3, 4, 5}

NextCopy ==
    \/ \E fieldsValue \in CopyInputs :
          \E available \in AvailableInputs(fieldsValue) :
             \E rootValue \in RootInputs(fieldsValue, available) :
                wiredRecordData(fieldsValue, available, rootValue)
    \/ \E message \in FetchMessages : wiredRecordError(message)
    \/ \E clipboardAvailable \in BOOLEAN, successful \in BOOLEAN :
          handleCopyToClipboard(clipboardAvailable, successful)
    \/ \E i \in 1..Len(copies) : writeTextResolved(i)
    \/ \E i \in 1..Len(copies), successful \in BOOLEAN : writeTextRejected(i, successful)

SpecCopy == Init /\ [][NextCopy]_vars


(***************************************************************************)
(* Vocabulary of the properties                                            *)
(***************************************************************************)
\* every node of a tree, at every depth, in display order
RECURSIVE Flatten(_)
RECURSIVE FlattenFrom(_, _)
FlattenFrom(tree, i) ==
    IF i > Len(tree) THEN <<>>
    ELSE <<tree[i]>> \o Flatten(tree[i].children) \o FlattenFrom(tree, i + 1)

Flatten(tree) == FlattenFrom(tree, 1)

NodesOf(tree) == {Flatten(tree)[i] : i \in 1..Len(Flatten(tree))}

\* every node of a tree with the JSON value it was built from, as a
\* sequence of pairs <<node, value>>; obj is the value the tree was built from
RECURSIVE Pairs(_, _)
RECURSIVE PairsFrom(_, _, _)
PairsFrom(tree, entries, i) ==
    IF i > Len(tree) \/ i > Len(entries) THEN <<>>
    ELSE << <<tree[i], entries[i].value>> >>
             \o (IF Len(tree[i].children) > 0
                 THEN Pairs(tree[i].children, entries[i].value) ELSE <<>>)
             \o PairsFrom(tree, entries, i + 1)

Pairs(tree, obj) ==
    IF ~IsObjectType(obj)
    THEN IF Len(tree) > 0 THEN << <<tree[1], obj>> >> ELSE <<>>
    ELSE PairsFrom(tree, entriesOf(obj), 1)

\* number of rows of a fully expanded display of a value
RECURSIVE RowCount(_)
RECURSIVE RowCountFrom(_, _)
RowCountFrom(entries, i) ==
    IF i > Len(entries) THEN 0
    ELSE 1 + (IF IsObjectType(entries[i].value) THEN RowCount(entries[i].value) ELSE 0)
           + RowCountFrom(entries, i + 1)

RowCount(obj) == IF ~IsObjectType(obj) THEN 1 ELSE RowCountFrom(entriesOf(obj), 1)

\* the text in fieldData is a document that processPayload materializes
Materialized == ~IsEmptyPayload(fieldData) /\ Texts[fieldData].ok

\* the parsed document in fieldData
Document == Texts[fieldData].json

DisplayedPairs == IF Materialized THEN Pairs(jsonTree, Document) ELSE <<>>

\* the ids of the non-empty containers of the document
ContainerIds == IF Materialized THEN addAllNodesToExpanded(Document, KeyStr(""), 0) ELSE {}

IsEmptyContainer(value) == IsObjectType(value) /\ ObjectKeysLength(value) = 0

\* the count placeholder of a container value itself
containerPlaceholder(value) ==
    IF IsArray(value)
    THEN "[" \o ToString(Len(value.items)) \o " items]"
    ELSE "{" \o ToString(Len(OwnKeys(value.members))) \o " properties}"

(***************************************************************************)
(* C1: no node of the displayed tree has isExpanded = true while           *)
(* hasChildren = false: expanded = expandable AND id in the expansion set. *)
(***************************************************************************)
C1_ExpandedImpliesExpandable ==
    \A n \in NodesOf(jsonTree) : n.isExpanded => n.hasChildren

(***************************************************************************)
(* C2: within one document two distinct positions never get the same id:   *)
(* the ids of the rows of the displayed tree are pairwise distinct.        *)
(***************************************************************************)
C2_DistinctPositionsDistinctIds ==
    \A i, j \in 1..Len(Flatten(jsonTree)) :
        Flatten(jsonTree)[i].key = Flatten(jsonTree)[j].key => i = j

(***************************************************************************)
(* C3: the summary of every expandable entry is the placeholder of the     *)
(* child itself, '[N items]' for an array child and '{N properties}' for   *)
(* an object child, whatever the type of the parent.                       *)
(***************************************************************************)
C3_PlaceholderOfChild ==
    \A i \in 1..Len(DisplayedPairs) :
        DisplayedPairs[i][1].hasChildren
            => DisplayedPairs[i][1].value = containerPlaceholder(DisplayedPairs[i][2])

(***************************************************************************)
(* C4 as stated: an empty object or array entry is not expandable and its  *)
(* summary is the count placeholder '{0 properties}' / '[0 items]'.        *)
(***************************************************************************)
C4_EmptyContainerCountPlaceholder ==
    \A i \in 1..Len(DisplayedPairs) :
        IsEmptyContainer(DisplayedPairs[i][2])
            => /\ ~DisplayedPairs[i][1].hasChildren
               /\ DisplayedPairs[i][1].value =
                      (IF IsArray(DisplayedPairs[i][2]) THEN "[0 items]" ELSE "{0 properties}")

(***************************************************************************)
(* C4 amended: an empty object or array entry is not expandable and its    *)
(* summary is its JSON serialization, '{}' / '[]'.                         *)
(***************************************************************************)
C4_EmptyContainerSerialized ==
    \A i \in 1..Len(DisplayedPairs) :
        IsEmptyContainer(DisplayedPairs[i][2])
            => /\ ~DisplayedPairs[i][1].hasChildren
               /\ DisplayedPairs[i][1].value =
                      (IF IsArray(DisplayedPairs[i][2]) THEN "[]" ELSE "{}")

C4_Witness ==
    /\ \E i \in 1..Len(DisplayedPairs) :
          IsEmptyContainer(DisplayedPairs[i][2]) /\ IsArray(DisplayedPairs[i][2])
    /\ \E i \in 1..Len(DisplayedPairs) :
          IsEmptyContainer(DisplayedPairs[i][2]) /\ ~IsArray(DisplayedPairs[i][2])

(***************************************************************************)
(* C5: after a data arrival, an id of the expansion set that is not the id *)
(* of a non-empty container of the new document has no effect on the tree: *)
(* the tree is the one materialized with that id removed from the set.     *)
(***************************************************************************)
C5_StaleIdsInert ==
    (lastEvent.op = "data" /\ Materialized)
        => \A id \in expandedNodes \ ContainerIds :
              jsonTree = buildJsonTree(Document, KeyStr(""), 0, expandedNodes \ {id})

(***************************************************************************)
(* C6: right after the expand-all branch on a parseable document every     *)
(* non-empty container, at every depth, is displayed with isExpanded =     *)
(* true, and the displayed tree has a row for every position.              *)
(***************************************************************************)
C6_ExpandAllTotality ==
    (lastEvent.op = "expandAll" /\ Materialized)
        => /\ \A i \in 1..Len(DisplayedPairs) :
                 (IsObjectType(DisplayedPairs[i][2]) /\ ObjectKeysLength(DisplayedPairs[i][2]) > 0)
                     => DisplayedPairs[i][1].isExpanded
           /\ Len(Flatten(jsonTree)) = RowCount(Document)

C6_Witness ==
    /\ lastEvent.op = "expandAll"
    /\ Materialized
    /\ \E n \in NodesOf(jsonTree) : n.level = 1 /\ n.isExpanded /\ Len(n.children) > 0

(***************************************************************************)
(* C7: laziness: the children of a node are non-empty iff the node is      *)
(* expandable and expanded; a node that is not expanded has no children.   *)
(***************************************************************************)
C7_Laziness ==
    \A n \in NodesOf(jsonTree) :
        /\ (Len(n.children) > 0) <=> (n.hasChildren /\ n.isExpanded)
        /\ ~n.isExpanded => n.children = <<>>

C7_Witness ==
    /\ \E i \in 1..Len(DisplayedPairs) :
          /\ ~DisplayedPairs[i][1].isExpanded
          /\ DisplayedPairs[i][1].children = <<>>
          /\ IsObjectType(DisplayedPairs[i][2])
          /\ ObjectKeysLength(DisplayedPairs[i][2]) > 0
    /\ \E n \in NodesOf(jsonTree) : n.isExpanded /\ Len(n.children) > 0

(***************************************************************************)
(* C8: two consecutive toggles of the same id leave the expansion set and  *)
(* the displayed tree as they were before the pair.                        *)
(***************************************************************************)
C8_TogglePair ==
    toggleRun = 2
        => /\ expandedNodes = snapshot.expandedNodes
           /\ jsonTree = snapshot.jsonTree

C8_Witness ==
    /\ toggleRun = 2
    /\ lastEvent.id \in expandedNodes
    /\ \E n \in NodesOf(jsonTree) : n.key = lastEvent.id /\ Len(n.children) > 0

(***************************************************************************)
(* C9: the collapse-all branch empties the expansion set, clears the       *)
(* allExpanded flag and leaves no node of the displayed tree expanded.     *)
(***************************************************************************)
C9_CollapseAll ==
    lastEvent.op = "collapseAll"
        => /\ expandedNodes = {}
           /\ ~allExpanded
           /\ \A n \in NodesOf(jsonTree) : ~n.isExpanded

C9_Witness ==
    /\ lastEvent.op = "collapseAll"
    /\ \E n \in NodesOf(jsonTree) : n.hasChildren

C11_EmptinessRule ==
    \A i \in 1..Len(DisplayedPairs) :
        DisplayedPairs[i][1].hasChildren
            = (/\ IsObjectType(DisplayedPairs[i][2])
               /\ (IF IsArray(DisplayedPairs[i][2])
                   THEN Len(DisplayedPairs[i][2].items)
                   ELSE Len(OwnKeys(DisplayedPairs[i][2].members))) > 0)

C11_Witness ==
    /\ \E i \in 1..Len(DisplayedPairs) :
          /\ IsEmptyContainer(DisplayedPairs[i][2])
          /\ DisplayedPairs[i][1].key \in expandedNodes
          /\ ~DisplayedPairs[i][1].hasChildren
    /\ \E i \in 1..Len(DisplayedPairs) : DisplayedPairs[i][1].hasChildren
    /\ \E i \in 1..Len(DisplayedPairs) : ~IsObjectType(DisplayedPairs[i][2])

(***************************************************************************)
(* C12: processing an arrived text ends in one of three outcomes: absent,  *)
(* blank or '{}' text gives the empty tree, no error and hasPayload false; *)
(* unparseable text gives the empty tree and the error 'Invalid JSON: '    *)
(* followed by the parser message; parseable text gives the tree           *)
(* materialized from the parsed value and the expansion set, and no error. *)
(***************************************************************************)
C12_ArrivalOutcomes ==
    lastEvent.op = "data"
        => IF fieldData = NoText \/ Texts[fieldData].blank \/ Texts[fieldData].raw = "{}"
           THEN jsonTree = <<>> /\ error = NoError /\ ~hasPayload(jsonTree, error)
           ELSE IF ~Texts[fieldData].ok
           THEN jsonTree = <<>> /\ error = "Invalid JSON: " \o Texts[fieldData].msg
           ELSE /\ jsonTree = buildJsonTree(Texts[fieldData].json, KeyStr(""), 0, expandedNodes)
                /\ error = NoError

C12_Witness ==
    /\ lastEvent.op = "data"
    /\ fieldData # NoText
    /\ ~Texts[fieldData].ok
    /\ prevError = NoError
    /\ error # NoError
    /\ expandedNodes # {}



(***************************************************************************)
(* C13: error recovery: while the error is set, a toggle, an expand or     *)
(* collapse all and a metadata arrival leave it set, and the arrival of a  *)
(* parseable text clears it and displays the materialization of that text. *)
(***************************************************************************)
C13_ErrorRecovery ==
    [][error # NoError
          => /\ lastEvent'.op \in {"toggle", "expandAll", "collapseAll",
                                   "objectInfo", "objectInfoError"}
                   => error' # NoError
             /\ (lastEvent'.op = "data" /\ fieldData' # NoText /\ Texts[fieldData'].ok)
                   => /\ error' = NoError
                      /\ jsonTree' = buildJsonTree(Texts[fieldData'].json, KeyStr(""), 0,
                                                   expandedNodes')]_vars

C13_Witness ==
    /\ lastEvent.op = "data"
    /\ prevError # NoError
    /\ error = NoError
    /\ Materialized
    /\ Len(jsonTree) > 0



(***************************************************************************)
(* C14: at the end of every handler the displayed tree is the tree freshly *)
(* materialized from the current text and the current expansion set, the   *)
(* empty tree when the text is absent, blank, '{}' or unparseable.         *)
(***************************************************************************)
C14_TreeIsFresh ==
    jsonTree = (IF fieldData = NoText \/ Texts[fieldData].blank
                   \/ Texts[fieldData].raw = "{}" \/ ~Texts[fieldData].ok
                THEN <<>>
                ELSE buildJsonTree(Texts[fieldData].json, KeyStr(""), 0, expandedNodes))

C14_Witness ==
    /\ lastEvent.op = "toggle"
    /\ lastEvent.id \in expandedNodes
    /\ \E n \in NodesOf(jsonTree) : n.key = lastEvent.id /\ n.isExpanded /\ Len(n.children) > 0
    /\ Cardinality(expandedNodes) > 1

(***************************************************************************)
(* C15: after every toggle allExpanded is false, whatever the expansion    *)
(* set is; an expand or collapse all that directly follows a toggle takes  *)
(* the expand-all branch, and the collapse-all branch is taken exactly     *)
(* when the flag is true.                                                  *)
(***************************************************************************)
C15_ToggleClearsFlag ==
    /\ [](lastEvent.op = "toggle" => ~allExpanded)
    /\ [][/\ lastEvent'.op = "collapseAll" => allExpanded
          /\ lastEvent'.op = "expandAll" => ~allExpanded
          /\ (lastEvent.op = "toggle" /\ lastEvent'.op \in {"collapseAll", "expandAll"})
                => lastEvent'.op = "expandAll"]_vars

C15_Witness ==
    /\ lastEvent.op = "toggle"
    /\ ~allExpanded
    /\ ContainerIds # {}
    /\ ContainerIds \subseteq expandedNodes
    /\ \A n \in NodesOf(jsonTree) : n.hasChildren => n.isExpanded

(***************************************************************************)
(* C16: a data arrival, a fetch error and a metadata arrival leave the     *)
(* expansion set and allExpanded unchanged, so a non-empty container that  *)
(* was expanded before a data arrival and is a non-empty container with    *)
(* the same id in the new tree is still expanded.                          *)
(***************************************************************************)
C16_ArrivalsKeepExpansion ==
    [][lastEvent'.op \in {"data", "fetchError", "objectInfo", "objectInfoError"}
          => /\ expandedNodes' = expandedNodes
             /\ allExpanded' = allExpanded
             /\ \A n \in NodesOf(jsonTree) : \A m \in NodesOf(jsonTree') :
                   (n.key = m.key /\ n.hasChildren /\ n.isExpanded /\ m.hasChildren)
                       => m.isExpanded]_vars

C16_Witness ==
    /\ lastEvent.op = "data"
    /\ allExpanded
    /\ \E n \in NodesOf(jsonTree) : n.hasChildren /\ n.isExpanded /\ Len(n.children) > 0
    /\ \E n \in NodesOf(jsonTree) : n.hasChildren /\ ~n.isExpanded



\* the keys of an object as Object.entries lists them: the integer-like
\* keys in ascending numeric order, then the others in text order
IndexKeysOf(ms) == {n \in 0..MaxIndex : \E i \in 1..Len(ms) : ms[i].k = ToString(n)}

IsOtherKey(k) == \A n \in 0..MaxIndex : k # ToString(n)

EngineOrderKeys(ms) ==
    (IF IndexKeysOf(ms) = {} THEN <<>>
     ELSE [i \in 1..Cardinality(IndexKeysOf(ms)) |->
              ToString(CHOOSE n \in IndexKeysOf(ms) :
                          Cardinality({m \in IndexKeysOf(ms) : m < n}) = i - 1)])
        \o SelectSeq(TextOrderKeys(ms, 1), IsOtherKey)

\* the rows of tree, built from obj, are at every depth in the order of the
\* array indices and of the object keys, the latter in text order or, with
\* engine, in the order of Object.entries
RECURSIVE RowsInOrder(_, _, _)
RowsInOrder(tree, obj, engine) ==
    IF ~IsObjectType(obj) THEN TRUE
    ELSE IF IsArray(obj)
    THEN /\ Len(tree) = Len(obj.items)
         /\ \A i \in 1..Len(tree) :
               /\ tree[i].displayKey = ToString(i - 1)
               /\ Len(tree[i].children) > 0
                     => RowsInOrder(tree[i].children, obj.items[i], engine)
    ELSE LET keys == IF engine THEN EngineOrderKeys(obj.members)
                     ELSE TextOrderKeys(obj.members, 1)
         IN  /\ Len(tree) = Len(keys)
             /\ \A i \in 1..Len(tree) :
                   /\ tree[i].displayKey = keys[i]
                   /\ Len(tree[i].children) > 0
                         => RowsInOrder(tree[i].children,
                                        PropertyValue(obj.members, keys[i]), engine)

(***************************************************************************)
(* C17 as stated: the rows are in document order: the entries of an object *)
(* in the order its keys first appeared in the document text, integer-like *)
(* keys included, and the entries of an array in ascending index order.    *)
(***************************************************************************)
C17_DocumentOrder ==
    Materialized => RowsInOrder(jsonTree, Document, FALSE)

(***************************************************************************)
(* C17 amended: the entries of an object are emitted with its integer-like *)
(* keys first, in ascending numeric order, then its other keys in the      *)
(* order they first appeared in the document text; the entries of an array *)
(* in ascending index order.                                               *)
(***************************************************************************)
C17_EntriesOrder ==
    Materialized => RowsInOrder(jsonTree, Document, TRUE)

C17_Witness ==
    /\ Materialized
    /\ Document.t = "object"
    /\ EngineOrderKeys(Document.members) # TextOrderKeys(Document.members, 1)
    /\ Len(jsonTree) = Len(Document.members)
    /\ \E n \in NodesOf(jsonTree) : n.level = 1

(***************************************************************************)
(* C19: whenever the error is set the displayed tree is empty, so          *)
(* hasPayload is false.                                                    *)
(***************************************************************************)
C19_ErrorMeansEmptyTree ==
    error # NoError => (jsonTree = <<>> /\ ~hasPayload(jsonTree, error))

C19_Witness ==
    /\ error # NoError
    /\ lastEvent.op = "fetchError"
    /\ prevError = NoError
    /\ expandedNodes # {}

(***************************************************************************)
(* C20: whenever allExpanded is true every expandable node of the current  *)
(* document is in the expansion set and is displayed expanded.             *)
(***************************************************************************)
C20_FlagMeansAllExpanded ==
    allExpanded
        => /\ ContainerIds \subseteq expandedNodes
           /\ \A n \in NodesOf(jsonTree) : n.hasChildren => n.isExpanded
           /\ Materialized => Len(Flatten(jsonTree)) = RowCount(Document)



(***************************************************************************)
(* C18: a call of the copy handler that has returned has shown exactly one *)
(* notification: a warning, with no copy mechanism tried, when the data    *)
(* was absent, blank or '{}'; otherwise the primary mechanism is tried     *)
(* first when it is tried, the legacy one only when the primary was not    *)
(* tried or failed, a success notification iff one mechanism succeeded     *)
(* and a failure notification iff every tried mechanism failed.            *)
(***************************************************************************)
C18_CopyFlow ==
    \A i \in 1..Len(copies) :
        LET c       == copies[i]
            tried   == {c.attempts[k].mechanism : k \in 1..Len(c.attempts)}
            okOnes  == {k \in 1..Len(c.attempts) : c.attempts[k].ok}
            noData  == \/ c.jsonData = NoText
                       \/ Texts[c.jsonData].blank
                       \/ Texts[c.jsonData].raw = "{}"
        IN  c.pc = "done"
              => /\ Len(c.toasts) = 1
                 /\ noData => (c.toasts = <<"warning">> /\ c.attempts = <<>>)
                 /\ ~noData =>
                      /\ Len(c.attempts) \in {1, 2}
                      /\ "primary" \in tried => c.attempts[1].mechanism = "primary"
                      /\ "legacy" \in tried
                            => \/ "primary" \notin tried
                               \/ (c.attempts[1] = Attempt("primary", FALSE)
                                   /\ c.attempts[2].mechanism = "legacy")
                      /\ (c.toasts = <<"success">>) <=> (okOnes # {})
                      /\ (c.toasts = <<"error">>) <=> (okOnes = {})

C18_Witness ==
    \E i \in 1..Len(copies) :
        /\ copies[i].pc = "done"
        /\ copies[i].attempts = <<Attempt("primary", FALSE), Attempt("legacy", FALSE)>>
        /\ copies[i].toasts = <<"error">>
        /\ copies[i].jsonData # fieldData


====
